---- MODULE Spec2Model ----
(***************************************************************************)
(* Model of the unified backend in src/frontend/vite.config.js: the        *)
(* in-memory bus store, the GraphQL mutations addBus / updateBusLocation,  *)
(* the REST handler POST /simulate-location, and the BUS_LOCATION          *)
(* subscription served through pubsub.asyncIterator and graphql-ws.        *)
(*                                                                         *)
(* Coordinates are floats in the source; here they are integers counted    *)
(* in units of 0.0001 degree.  An event published on BUS_LOCATION is the   *)
(* object { busLocationUpdated: bus }, which holds a REFERENCE to the      *)
(* element of the buses array: an event in a queue is therefore modelled   *)
(* as the number k of its publish call, the bus it refers to is            *)
(* published[k].bus, and what a subscriber reads from the event is read    *)
(* from the store at the moment it drains it.                              *)
(*                                                                         *)
(* Node runs every callback to completion together with the promise        *)
(* continuations it schedules, so each action below is one such task: a    *)
(* request handler with the listener calls its publish triggers, a         *)
(* subscribe message with the registration of the iterator it creates.     *)
(***************************************************************************)
EXTENDS Integers, Sequences, FiniteSets, TLC

\* ---------------------------------------------------------------- bounds
MaxBuses    == 2      \* addBus is enabled while the store is shorter
MaxPub      == 3      \* successful location updates per behaviour
NumSessions == 2      \* subscription sessions that may ever be opened
MaxExtraReturns == 2  \* return() calls on iterators already stopped

\* ------------------------------------------------------- program constants
InitLat == 190700     \* 19.07
InitLng == 728700     \* 72.87
NewLat  == 0
NewLng  == 0

Sessions == 1..NumSessions

\* inputs of the operations
IdInputs   == 1..(MaxBuses + 1)          \* ids a caller may name
LatInputs  == {10}                       \* lat argument of updateBusLocation
LngInputs  == {30}                       \* lng argument of updateBusLocation
LatDeltas  == {1}                        \* (Math.random() - 0.5) * 0.001
LngDeltas  == {1}
Numbers    == {"KA01CD5678"}
Routes     == {"B-C"}
Capacities == {30}

VARIABLES
  buses,      \* the in-memory store: sequence of bus records
  listeners,  \* sessions whose iterator is registered on BUS_LOCATION
  sess,       \* session state: Pending, Active, Closing, Terminated
  pushQueue,  \* per session: the iterator's buffered events
  res,        \* response of the last request handled
  published,  \* history: per publish call, the bus and its coords then
  regAt,      \* history: number of publishes when the session subscribed
  delivered,  \* history: per session, the events the client was sent
  lastSent,   \* history: per session, the payload of the last event sent
  extraReturns \* history: return() calls made on iterators already stopped

vars == <<buses, listeners, sess, pushQueue, res, published, regAt, delivered,
          lastSent, extraReturns>>

\* ------------------------------------------------------------ pure helpers

RECURSIVE Digits(_)
Digits(n) == IF n < 10 THEN <<n>> ELSE Append(Digits(n \div 10), n % 10)

\* String(x) on a non-negative integer: its decimal digits
String(n) == Digits(n)

\* variant of find: falls back to the first bus when no id matches
findOrFirst(bs, id) ==
  IF \E i \in 1..Len(bs) : bs[i].id = id
  THEN CHOOSE i \in 1..Len(bs) :
         bs[i].id = id /\ \A j \in 1..(i - 1) : bs[j].id # id
  ELSE 1

\* buses.find(b => b.id === id): index of the first match, 0 when none
find(bs, id) ==
  IF \E i \in 1..Len(bs) : bs[i].id = id
  THEN CHOOSE i \in 1..Len(bs) :
         bs[i].id = id /\ \A j \in 1..(i - 1) : bs[j].id # id
  ELSE 0

\* the coords an observer reads through a reference to bus i
Snapshot(bs, i) == [bus |-> i, lat |-> bs[i].lat, lng |-> bs[i].lng]

\* variant of publish: the event is put at the front of each queue
publishPrepend(ls, q, k) ==
  [s \in Sessions |-> IF s \in ls THEN <<k>> \o q[s] ELSE q[s]]

\* variant of publish: queues hold two events and drop the oldest
publishBounded(ls, q, k) ==
  [s \in Sessions |->
     IF s \in ls
     THEN IF Len(q[s]) >= 2 THEN Append(Tail(q[s]), k) ELSE Append(q[s], k)
     ELSE q[s]]

\* variant of publish: every session that subscribed is reached, removed or not
publishAll(ls, q, k) ==
  [s \in Sessions |-> IF regAt[s] >= 0 THEN Append(q[s], k) ELSE q[s]]

\* variant of publish: listeners are served in turn and the fan-out stops at
\* the first one that still has events to drain
publishUntilBacklog(ls, q, k) ==
  [s \in Sessions |->
     IF s \in ls /\ \A t \in ls : t < s => q[t] = << >>
     THEN Append(q[s], k)
     ELSE q[s]]

\* pubsub.publish(BUS_LOC_TOPIC, ...): the emitter calls the listener of
\* every registered iterator, which appends the event to that iterator's
\* queue; the queue has no capacity limit
publish(ls, q, k) ==
  [s \in Sessions |-> IF s \in ls THEN Append(q[s], k) ELSE q[s]]

\* ------------------------------------------------------------------- Init

Init ==
  /\ buses = << [id |-> String(1), number |-> "MH12AB1234", route |-> "A-B",
                 capacity |-> 40, lat |-> InitLat, lng |-> InitLng] >>
  /\ listeners = {}
  /\ sess = [s \in Sessions |-> "Pending"]
  /\ pushQueue = [s \in Sessions |-> << >>]
  /\ res = [op |-> "none", kind |-> "none", bus |-> 0]
  /\ published = << >>
  /\ regAt = [s \in Sessions |-> -1]
  /\ delivered = [s \in Sessions |-> << >>]
  /\ lastSent = [s \in Sessions |-> [k |-> 0, lat |-> 0, lng |-> 0]]
  /\ extraReturns = 0

\* -------------------------------------------------------------- mutations

\* variant of addBus: the id is the length of the store before the push
addBusOffByOne(number, route, capacity) ==
  /\ Len(buses) < MaxBuses
  /\ LET bus == [id |-> String(Len(buses)), number |-> number,
                 route |-> route, capacity |-> capacity,
                 lat |-> NewLat, lng |-> NewLng]
     IN /\ buses' = Append(buses, bus)
        /\ res' = [op |-> "addBus", kind |-> "bus", bus |-> Len(buses) + 1]
  /\ UNCHANGED <<listeners, sess, pushQueue, published, regAt, delivered, lastSent, extraReturns>>

\* variant of addBus: publishes the new bus on BUS_LOCATION
addBusPublishes(number, route, capacity) ==
  /\ Len(buses) < MaxBuses
  /\ Len(published) < MaxPub
  /\ LET bus == [id |-> String(Len(buses) + 1), number |-> number,
                 route |-> route, capacity |-> capacity,
                 lat |-> NewLat, lng |-> NewLng]
     IN /\ buses' = Append(buses, bus)
        /\ published' = Append(published, Snapshot(buses', Len(buses')))
        /\ pushQueue' = publish(listeners, pushQueue, Len(published) + 1)
        /\ res' = [op |-> "addBus", kind |-> "bus", bus |-> Len(buses) + 1]
  /\ UNCHANGED <<listeners, sess, regAt, delivered, lastSent, extraReturns>>

addBus(number, route, capacity) ==
  /\ Len(buses) < MaxBuses
  /\ LET bus == [id |-> String(Len(buses) + 1), number |-> number,
                 route |-> route, capacity |-> capacity,
                 lat |-> NewLat, lng |-> NewLng]
     IN /\ buses' = Append(buses, bus)
        /\ res' = [op |-> "addBus", kind |-> "bus", bus |-> Len(buses) + 1]
  /\ UNCHANGED <<listeners, sess, pushQueue, published, regAt, delivered, lastSent, extraReturns>>

\* variant of SetCoords: every bus shares one coords object
SetCoordsShared(bs, i, lat, lng) ==
  [j \in 1..Len(bs) |-> [bs[j] EXCEPT !.lat = lat, !.lng = lng]]

\* the store after bus.coords.lat = lat; bus.coords.lng = lng
SetCoords(bs, i, lat, lng) ==
  [bs EXCEPT ![i] = [@ EXCEPT !.lat = lat, !.lng = lng]]

\* variant of WriteThenPublish: the event is published before the write
PublishThenWrite(op, i, lat, lng) ==
  LET bs1 == SetCoords(buses, i, lat, lng)
  IN /\ Len(published) < MaxPub
     /\ published' = Append(published, Snapshot(buses, i))
     /\ pushQueue' = publish(listeners, pushQueue, Len(published) + 1)
     /\ buses' = bs1
     /\ res' = [op |-> op, kind |-> "bus", bus |-> i]

\* variant of WriteThenPublish: publish fails when nobody listens, so the
\* handler answers with an error after the write
WriteThenPublishStrict(op, i, lat, lng) ==
  LET bs1 == SetCoords(buses, i, lat, lng)
  IN /\ Len(published) < MaxPub
     /\ buses' = bs1
     /\ published' = Append(published, Snapshot(bs1, i))
     /\ pushQueue' = publish(listeners, pushQueue, Len(published) + 1)
     /\ res' = IF listeners = {}
               THEN [op |-> op, kind |-> "error", bus |-> 0]
               ELSE [op |-> op, kind |-> "bus", bus |-> i]

\* common tail of both location updates once the bus was found: write the
\* coords, then publish the reference to the bus, then answer with the bus
WriteThenPublish(op, i, lat, lng) ==
  LET bs1 == SetCoords(buses, i, lat, lng)
  IN /\ Len(published) < MaxPub
     /\ buses' = bs1
     /\ published' = Append(published, Snapshot(bs1, i))
     /\ pushQueue' = publish(listeners, pushQueue, Len(published) + 1)
     /\ res' = [op |-> op, kind |-> "bus", bus |-> i]

updateBusLocation(id, lat, lng) ==
  LET i == find(buses, String(id))
  IN /\ IF i = 0
        THEN /\ res' = [op |-> "updateBusLocation", kind |-> "null", bus |-> 0]
             /\ UNCHANGED <<buses, published, pushQueue>>
        ELSE WriteThenPublish("updateBusLocation", i, lat, lng)
     /\ UNCHANGED <<listeners, sess, regAt, delivered, lastSent, extraReturns>>

simulateLocation(id, dlat, dlng) ==
  LET i == find(buses, String(id))
  IN /\ IF i = 0
        THEN /\ res' = [op |-> "simulate-location", kind |-> "404", bus |-> 0]
             /\ UNCHANGED <<buses, published, pushQueue>>
        ELSE WriteThenPublish("simulate-location", i,
                              buses[i].lat + dlat, buses[i].lng + dlng)
     /\ UNCHANGED <<listeners, sess, regAt, delivered, lastSent, extraReturns>>

\* --------------------------------------------------------------- sessions

\* variant of Subscribe: the new iterator starts with every past event
SubscribeReplay(s) ==
  /\ sess[s] = "Pending"
  /\ sess' = [sess EXCEPT ![s] = "Active"]
  /\ listeners' = listeners \cup {s}
  /\ regAt' = [regAt EXCEPT ![s] = Len(published)]
  /\ pushQueue' = [pushQueue EXCEPT ![s] = [i \in 1..Len(published) |-> i]]
  /\ UNCHANGED <<buses, res, published, delivered, lastSent, extraReturns>>

\* variant of Subscribe: the iterator is built but never registered
SubscribeUnregistered(s) ==
  /\ sess[s] = "Pending"
  /\ sess' = [sess EXCEPT ![s] = "Active"]
  /\ regAt' = [regAt EXCEPT ![s] = Len(published)]
  /\ UNCHANGED <<buses, listeners, pushQueue, res, published, delivered, lastSent, extraReturns>>

\* subscribe resolver: pubsub.asyncIterator(BUS_LOC_TOPIC) builds the
\* iterator, and the session's consumer loop registers it with its first
\* next()
Subscribe(s) ==
  /\ sess[s] = "Pending"
  /\ sess' = [sess EXCEPT ![s] = "Active"]
  /\ listeners' = listeners \cup {s}
  /\ regAt' = [regAt EXCEPT ![s] = Len(published)]
  /\ UNCHANGED <<buses, pushQueue, res, published, delivered, lastSent, extraReturns>>

\* what the session forwards for event k: the fields of the bus object the
\* event refers to, read when the event is taken from the queue
Observe(bs, k) ==
  [k |-> k, lat |-> bs[published[k].bus].lat, lng |-> bs[published[k].bus].lng]

\* next() resolves with the head of the queue and the session sends it
Drain(s) ==
  /\ sess[s] = "Active"
  /\ pushQueue[s] # << >>
  /\ delivered' = [delivered EXCEPT ![s] = Append(@, Head(pushQueue[s]))]
  /\ lastSent' = [lastSent EXCEPT ![s] = Observe(buses, Head(pushQueue[s]))]
  /\ pushQueue' = [pushQueue EXCEPT ![s] = Tail(@)]
  /\ UNCHANGED <<buses, listeners, sess, res, published, regAt, extraReturns>>

\* the socket closes, or the client sends complete for the operation
Close(s) ==
  /\ sess[s] = "Active"
  /\ sess' = [sess EXCEPT ![s] = "Closing"]
  /\ UNCHANGED <<buses, listeners, pushQueue, res, published, regAt, delivered, lastSent, extraReturns>>

\* variant of DeliveryError: the failure takes every running session down
DeliveryErrorClosesAll(s) ==
  /\ sess[s] = "Active"
  /\ pushQueue[s] # << >>
  /\ pushQueue' = [pushQueue EXCEPT ![s] = Tail(@)]
  /\ sess' = [t \in Sessions |-> IF sess[t] = "Active" THEN "Closing" ELSE sess[t]]
  /\ UNCHANGED <<buses, listeners, res, published, regAt, delivered, lastSent, extraReturns>>

\* next() resolved with the head of the queue and sending it failed
DeliveryError(s) ==
  /\ sess[s] = "Active"
  /\ pushQueue[s] # << >>
  /\ pushQueue' = [pushQueue EXCEPT ![s] = Tail(@)]
  /\ sess' = [sess EXCEPT ![s] = "Closing"]
  /\ UNCHANGED <<buses, listeners, res, published, regAt, delivered, lastSent, extraReturns>>

\* variant of Return: the listener stays registered
ReturnNoUnsub(s) ==
  /\ sess[s] = "Closing"
  /\ sess' = [sess EXCEPT ![s] = "Terminated"]
  /\ pushQueue' = [pushQueue EXCEPT ![s] = << >>]
  /\ UNCHANGED <<buses, listeners, res, published, regAt, delivered, lastSent, extraReturns>>

\* iterator.return(): stop, empty the queue, remove the listener
Return(s) ==
  /\ sess[s] = "Closing"
  /\ sess' = [sess EXCEPT ![s] = "Terminated"]
  /\ pushQueue' = [pushQueue EXCEPT ![s] = << >>]
  /\ listeners' = listeners \ {s}
  /\ UNCHANGED <<buses, res, published, regAt, delivered, lastSent, extraReturns>>

\* the cleanup an unguarded second return() would run: the listener is
\* looked up in the emitter's array and spliced out, and splice(-1, 1)
\* removes the last listener when the lookup finds none
SpliceOut(ls, s) ==
  IF s \in ls THEN ls \ {s}
  ELSE IF ls = {} THEN ls
  ELSE ls \ {CHOOSE m \in ls : \A n \in ls : n <= m}

\* variant of ReturnAgain: the cleanup runs again on the stopped iterator
ReturnAgainUnguarded(s) ==
  /\ sess[s] = "Terminated"
  /\ extraReturns < MaxExtraReturns
  /\ extraReturns' = extraReturns + 1
  /\ pushQueue' = [pushQueue EXCEPT ![s] = << >>]
  /\ listeners' = SpliceOut(listeners, s)
  /\ UNCHANGED <<buses, sess, res, published, regAt, delivered, lastSent>>

\* iterator.return() on an iterator that is already stopped: the iterator
\* is no longer running, so nothing is emptied and nothing is unsubscribed
ReturnAgain(s) ==
  /\ sess[s] = "Terminated"
  /\ extraReturns < MaxExtraReturns
  /\ extraReturns' = extraReturns + 1
  /\ UNCHANGED <<buses, listeners, sess, pushQueue, res, published, regAt,
                 delivered, lastSent>>

\* ------------------------------------------------------------------- Next

Next ==
  \/ \E n \in Numbers, r \in Routes, c \in Capacities : addBus(n, r, c)
  \/ \E id \in IdInputs, lat \in LatInputs, lng \in LngInputs :
       updateBusLocation(id, lat, lng)
  \/ \E id \in IdInputs, dlat \in LatDeltas, dlng \in LngDeltas :
       simulateLocation(id, dlat, dlng)
  \/ \E s \in Sessions : Subscribe(s)
  \/ \E s \in Sessions : Drain(s)
  \/ \E s \in Sessions : Close(s)
  \/ \E s \in Sessions : DeliveryError(s)
  \/ \E s \in Sessions : Return(s)
  \/ \E s \in Sessions : ReturnAgain(s)

Spec == Init /\ [][Next]_vars

\* the event loop runs every scheduled callback: the return() of a closing
\* session is eventually executed
FairSpec == Spec /\ \A s \in Sessions : WF_vars(Return(s))

TypeOK ==
  /\ listeners \subseteq Sessions
  /\ \A s \in Sessions : sess[s] \in {"Pending", "Active", "Closing", "Terminated"}
  /\ Len(buses) \in 1..MaxBuses
  /\ Len(published) <= MaxPub

\* ------------------------------------------------------------ step labels

UpdateStep ==
  \E id \in IdInputs, lat \in LatInputs, lng \in LngInputs :
    updateBusLocation(id, lat, lng)

SimulateStep ==
  \E id \in IdInputs, dlat \in LatDeltas, dlng \in LngDeltas :
    simulateLocation(id, dlat, dlng)

LocationUpdateStep == UpdateStep \/ SimulateStep

AddBusStep == \E n \in Numbers, r \in Routes, c \in Capacities : addBus(n, r, c)

HasBus(id) == \E i \in 1..Len(buses) : buses[i].id = String(id)

Increasing(q) == \A i, j \in 1..Len(q) : i < j => q[i] < q[j]

\* the publish calls a..b in order
Calls(a, b) == [i \in 1..(b - a + 1) |-> a + i - 1]

\* ----------------------------------------------------------------- claims

\* C1: per-subscriber FIFO. For every session, the events it was sent followed
\* by the events still in its queue are in the order of their publish calls,
\* whatever the interleaving of publishes and drains.
C1_PerSubscriberFIFO ==
  \A s \in Sessions : Increasing(delivered[s] \o pushQueue[s])

\* a session that drained between publishes and has more to drain
C1_Witness ==
  \E s \in Sessions :
    /\ Len(delivered[s]) >= 2
    /\ pushQueue[s] # << >>
    /\ \E t \in Sessions : t # s /\ Len(pushQueue[t]) >= 2

\* C2: fan-out completeness. Every session that is registered and running has
\* been sent, or still holds in its queue, every event published since it
\* subscribed, each exactly once: nothing dropped, nothing duplicated.
C2_FanOutComplete ==
  \A s \in Sessions :
    sess[s] = "Active" =>
      delivered[s] \o pushQueue[s] = Calls(regAt[s] + 1, Len(published))

\* E1, E2, E3 published without a drain in between, then drained by all
C2_Witness ==
  \A s \in Sessions :
    /\ sess[s] = "Active"
    /\ regAt[s] = 0
    /\ delivered[s] = <<1, 2, 3>>

\* C3: no delivery after removal. Once a session is terminated no step puts
\* an event in its queue or sends it one, while every registered session
\* gets the event of each further publish at the end of its queue.
C3_NoDeliveryAfterRemoval ==
  [][ /\ \A s \in Sessions :
           sess[s] = "Terminated" =>
             /\ pushQueue'[s] = << >>
             /\ delivered'[s] = delivered[s]
      /\ \A t \in listeners :
           Len(published') > Len(published) =>
             /\ pushQueue'[t] # << >>
             /\ pushQueue'[t][Len(pushQueue'[t])] = Len(published')
    ]_vars

\* subscribe S1, S2; publish E1; unsubscribe S1; publish E2
C3_Witness ==
  /\ sess[1] = "Terminated"
  /\ regAt[1] = 0
  /\ delivered[1] = <<1>>
  /\ sess[2] = "Active"
  /\ regAt[2] = 0
  /\ delivered[2] = <<1, 2>>

C5_AddBusPublishes ==
  [][ AddBusStep =>
        /\ Len(published') = Len(published) + 1
        /\ published'[Len(published')].bus = Len(buses')
    ]_vars

\* C5 amended: a successful addBus appends the bus to the store and publishes
\* nothing: no publish call is made and no session's queue changes.
C5_AddBusSilent ==
  [][ AddBusStep =>
        /\ Len(buses') = Len(buses) + 1
        /\ res'.bus = Len(buses')
        /\ published' = published
        /\ pushQueue' = pushQueue
    ]_vars

\* a bus was added while a session was registered, and nothing was published
C5_Witness ==
  /\ res.op = "addBus"
  /\ Len(buses) = 2
  /\ listeners # {}
  /\ published = << >>
  /\ \A s \in Sessions : pushQueue[s] = << >>

C8_GuaranteedRelease ==
  /\ \A s \in Sessions :
       (sess[s] = "Closing") ~> (sess[s] = "Terminated" /\ s \notin listeners)
  /\ [](\A s \in Sessions : sess[s] = "Terminated" => s \notin listeners)
  /\ []((\A s \in Sessions : sess[s] = "Terminated") => listeners = {})

\* all sessions ended, one by a delivery error, and the registry is empty
C8_Witness ==
  /\ \A s \in Sessions : sess[s] = "Terminated"
  /\ listeners = {}
  /\ \E s \in Sessions : Len(delivered[s]) + 1 < Len(published) - regAt[s]

\* C9: no backlog replay. Every event a session was sent or holds in its
\* queue comes from a publish call made after the session subscribed.
C9_NoBacklogReplay ==
  \A s \in Sessions :
    /\ \A i \in 1..Len(delivered[s]) : delivered[s][i] > regAt[s] /\ regAt[s] >= 0
    /\ \A i \in 1..Len(pushQueue[s]) : pushQueue[s][i] > regAt[s] /\ regAt[s] >= 0

\* a session that subscribed after an earlier session ended, with publishes
\* before and after its subscribe
C9_Witness ==
  /\ sess[1] = "Terminated"
  /\ delivered[1] = <<1>>
  /\ regAt[2] = 2
  /\ delivered[2] = <<3>>

C11_FireAndForget ==
  /\ [](\A id \in IdInputs :
          (HasBus(id) /\ Len(published) < MaxPub) =>
            /\ ENABLED (\E lat \in LatInputs, lng \in LngInputs :
                          updateBusLocation(id, lat, lng))
            /\ ENABLED (\E dlat \in LatDeltas, dlng \in LngDeltas :
                          simulateLocation(id, dlat, dlng)))
  /\ [][ (LocationUpdateStep /\ res'.kind = "bus") =>
           \A t \in listeners :
             pushQueue'[t] = Append(pushQueue[t], Len(published'))
       ]_vars

\* one session never drained three events while the other was sent them all
C11_Witness ==
  \E s, t \in Sessions :
    /\ sess[s] = "Active" /\ sess[t] = "Active"
    /\ delivered[s] = << >> /\ pushQueue[s] = <<1, 2, 3>>
    /\ delivered[t] = <<1, 2, 3>>
    /\ res.kind = "bus"

\* C13: delivery-error isolation. A failed send moves only its own session to
\* Closing: the store, the publish history, the last response, the registry
\* and every other session's state, queue and sent events are unchanged; and
\* a running session stays complete while another session is closing or gone.
C13_DeliveryErrorIsolated ==
  /\ [][ \A s \in Sessions :
           DeliveryError(s) =>
             /\ sess' = [sess EXCEPT ![s] = "Closing"]
             /\ \A t \in Sessions \ {s} : pushQueue'[t] = pushQueue[t]
             /\ UNCHANGED <<buses, published, res, listeners, delivered>>
       ]_vars
  /\ [](\A s, t \in Sessions :
          (s # t /\ sess[s] \in {"Closing", "Terminated"} /\ sess[t] = "Active") =>
            delivered[t] \o pushQueue[t] = Calls(regAt[t] + 1, Len(published)))

\* session 1 failed to send E1 and is closing; session 2 was sent E1 and E2
C13_Witness ==
  /\ sess[1] = "Closing"
  /\ regAt[1] = 0
  /\ delivered[1] = << >>
  /\ pushQueue[1] = <<2>>
  /\ sess[2] = "Active"
  /\ regAt[2] = 0
  /\ delivered[2] = <<1, 2>>
  /\ res.kind = "bus"

Rank(st) ==
  CASE st = "Pending" -> 0
    [] st = "Active" -> 1
    [] st = "Closing" -> 2
    [] st = "Terminated" -> 3

\* C14: session states only move forward. Every step leaves a session where
\* it is or moves it one state along Pending, Active, Closing, Terminated; a
\* session is in the registry exactly while it is Active or Closing, and a
\* subscribe adds exactly one new member.
C14_ForwardOnly ==
  /\ [][ \A s \in Sessions :
           /\ Rank(sess'[s]) \in {Rank(sess[s]), Rank(sess[s]) + 1}
           /\ sess[s] = "Terminated" => sess'[s] = "Terminated"
           /\ Subscribe(s) =>
                /\ s \notin listeners
                /\ listeners' = listeners \cup {s}
       ]_vars
  /\ [](listeners = {s \in Sessions : sess[s] \in {"Active", "Closing"}})

\* the sessions are spread over the later states of the machine
C14_Witness ==
  /\ sess[1] = "Terminated"
  /\ sess[2] = "Closing"
  /\ listeners = {2}

\* C15: bus ids stay unique. No two buses of the store have the same id, so
\* an id names at most one bus and find yields that one.
C15_UniqueIds ==
  /\ \A i, j \in 1..Len(buses) : i # j => buses[i].id # buses[j].id
  /\ \A id \in IdInputs :
       /\ Cardinality({i \in 1..Len(buses) : buses[i].id = String(id)}) <= 1
       /\ HasBus(id) => buses[find(buses, String(id))].id = String(id)

\* a bus was added and both buses were updated by id since
C15_Witness ==
  /\ Len(buses) = 2
  /\ Len(published) >= 2
  /\ \E k1, k2 \in 1..Len(published) : published[k1].bus = 1 /\ published[k2].bus = 2

Fields(b) == <<b.id, b.number, b.route, b.capacity>>

\* C16: frame of a location update. A location update step changes nothing of
\* the store but the coords of the bus whose id matches: the number of buses,
\* the id, number, route and capacity of every bus and the coords of every
\* other bus are unchanged, and so is the registry.
C16_UpdateFrame ==
  [][ LocationUpdateStep =>
        /\ Len(buses') = Len(buses)
        /\ listeners' = listeners
        /\ \A j \in 1..Len(buses) :
             /\ Fields(buses'[j]) = Fields(buses[j])
             /\ j # res'.bus => buses'[j] = buses[j]
    ]_vars

\* the second bus was moved and the first still has its initial coords
C16_Witness ==
  /\ Len(buses) = 2
  /\ buses[1].lat = InitLat /\ buses[1].lng = InitLng
  /\ buses[2].lat # NewLat
  /\ res.bus = 2
  /\ res.op \in {"updateBusLocation", "simulate-location"}

====
